---- MODULE Spec2Model ----
(***************************************************************************)
(* Model of scripts/merge_last_days.py: merge an OLD and a NEW CSV table,  *)
(* keeping OLD rows dated before the cutoff and taking every row dated on  *)
(* or after the cutoff from NEW.                                           *)
(*                                                                         *)
(* A string is a sequence of tokens.  A token is a pair <<kind, n>>: the   *)
(* ISO text of calendar day n (<<"date", n>>), a space, the letter T, or   *)
(* any other text.  A row is a sequence of strings, a table a sequence of  *)
(* rows, and a file's content is the table csv.reader yields for it.       *)
(* Sequences are 1-based, so the code's index di is di + 1 here.           *)
(***************************************************************************)
EXTENDS Integers, Sequences, FiniteSets, TLC

VARIABLES fs, args, today, pc, new_rows, header, di, old_rows, cutoff,
          new_recent, merged, exitcode, stderr, fs0, run, prev_out

vars == <<fs, args, today, pc, new_rows, header, di, old_rows, cutoff,
          new_recent, merged, exitcode, stderr, fs0, run, prev_out>>

\* ------------------------------------------------------------- bounds
MaxNewRows == 3
MaxOldRows == 3

\* ------------------------------------------------------------ strings
SP == <<"sp", 0>>
TEE == <<"T", 0>>
JUNK == <<"x", 0>>
DateTok(n) == <<"date", n>>

\* a one-word string with no space, no T and no date in it
Name(w) == << <<w, 0>> >>
\* the ISO text of day n, and the same followed by a time of day
Iso(n) == << DateTok(n) >>
IsoSpaceTime(n) == << DateTok(n), SP, JUNK >>
IsoTTime(n) == << DateTok(n), TEE, JUNK >>
Empty == << >>

\* ------------------------------------------------------- parse_date
NoneDate == [tag |-> "None", d |-> 0]
ValueError == [tag |-> "ValueError", d |-> 0]
Date(n) == [tag |-> "date", d |-> n]

RECURSIVE lstrip(_)
lstrip(s) == IF s # << >> /\ Head(s) = SP THEN lstrip(Tail(s)) ELSE s

RECURSIVE rstrip(_)
rstrip(s) ==
  IF s # << >> /\ s[Len(s)] = SP THEN rstrip(SubSeq(s, 1, Len(s) - 1)) ELSE s

strip(s) == rstrip(lstrip(s))

\* s.split(sep)[0]: the text before the first sep
RECURSIVE split0(_, _)
split0(s, sep) ==
  IF s = << >> \/ Head(s) = sep THEN << >>
  ELSE <<Head(s)>> \o split0(Tail(s), sep)

\* datetime.date.fromisoformat: exactly the ISO text of one day, or it raises
fromisoformat(s) ==
  IF Len(s) = 1 /\ s[1][1] = "date" THEN Date(s[1][2]) ELSE ValueError

parse_date(s) ==
  LET t == strip(s)
  IN  IF t = << >> THEN NoneDate
      ELSE fromisoformat(split0(split0(t, TEE), SP))

\* ------------------------------------------------------------- files
NoFile == [exists |-> FALSE, rows |-> << >>]
File(rows) == [exists |-> TRUE, rows |-> rows]
NoPath == "-"

\* header.index(date_col), 1-based; 0 when list.index raises ValueError
header_index(h, col) ==
  IF \E i \in 1..Len(h) : h[i] = col
  THEN CHOOSE i \in 1..Len(h) : h[i] = col /\ \A j \in 1..(i - 1) : h[j] # col
  ELSE 0

\* ------------------------------------------------- the steps of main
\* a row of the merged body, with where it was read from
Entry(row, src, pos) == [row |-> row, src |-> src, pos |-> pos]

DictPut(m, k, v) == [x \in (DOMAIN m) \cup {k} |-> IF x = k THEN v ELSE m[x]]

\* variant: the cutoff test on NEW rows left out
in_recent_window_always(d, cut) == TRUE

\* line 76: if d >= cutoff
in_recent_window(d, cut) == d >= cut

\* variant: the first row of a date is kept, later ones ignored
dict_store_first(acc, d, e) == IF d \in DOMAIN acc THEN acc ELSE DictPut(acc, d, e)

\* line 77: new_recent[d] = row; a later row for the same date overwrites
dict_store(acc, d, e) == DictPut(acc, d, e)

\* variants: the cutoff test on OLD rows left out, or made inclusive
before_cutoff_always(d, cut) == TRUE
before_or_at_cutoff(d, cut) == d <= cut

\* line 91: if d < cutoff
before_cutoff(d, cut) == d < cut

\* lines 68-77: the loop over new_rows[1:]; raised when parse_date raises
RECURSIVE index_new_from(_, _, _, _, _, _)
index_new_from(rows, i, h, dix, cut, acc) ==
  IF i > Len(rows) THEN [raised |-> FALSE, dict |-> acc]
  ELSE LET row == rows[i]
       IN  IF Len(row) # Len(h) THEN index_new_from(rows, i + 1, h, dix, cut, acc)
           ELSE LET d == parse_date(row[dix])
                IN  IF d = ValueError THEN [raised |-> TRUE, dict |-> acc]
                    ELSE IF d = NoneDate
                      THEN index_new_from(rows, i + 1, h, dix, cut, acc)
                    ELSE IF in_recent_window(d.d, cut)
                      THEN index_new_from(rows, i + 1, h, dix, cut,
                                          dict_store(acc, d.d, Entry(row, "new", i)))
                    ELSE index_new_from(rows, i + 1, h, dix, cut, acc)

index_new(rows, h, dix, cut) == index_new_from(rows, 2, h, dix, cut, << >>)

\* lines 80-92: the loop over old_rows[1:]; parse errors are caught
RECURSIVE filter_old_from(_, _, _, _, _)
filter_old_from(rows, i, h, dix, cut) ==
  IF i > Len(rows) THEN << >>
  ELSE LET row == rows[i]
           rest == filter_old_from(rows, i + 1, h, dix, cut)
       IN  IF Len(row) # Len(h) THEN rest
           ELSE LET d == parse_date(row[dix])
                IN  IF d = ValueError THEN rest
                    ELSE IF d = NoneDate THEN rest
                    ELSE IF before_cutoff(d.d, cut) THEN <<Entry(row, "old", i)>> \o rest
                    ELSE rest

filter_old(rows, h, dix, cut) == filter_old_from(rows, 2, h, dix, cut)

\* lines 96-97: for d in sorted(new_recent.keys()): merged.append(new_recent[d])
RECURSIVE recent_in_order(_, _)
recent_in_order(dict, keys) ==
  IF keys = {} THEN << >>
  ELSE LET k == CHOOSE x \in keys : \A y \in keys : x <= y
       IN  <<dict[k]>> \o recent_in_order(dict, keys \ {k})

append_recent(body, dict) == body \o recent_in_order(dict, DOMAIN dict)

\* line 101: the sort key of a body row
sort_key(e, dix) == parse_date(e.row[dix]).d

\* sorted(body, key=...): Python's sort is stable, so the result is the one
\* stable ordering by key; insertion after the last element not greater
\* variant: a row also goes in front of the rows of its own date
goes_before_or_ties(e, f, dix) == sort_key(e, dix) <= sort_key(f, dix)

\* e goes in front of f only when its key is strictly smaller
goes_before(e, f, dix) == sort_key(e, dix) < sort_key(f, dix)

RECURSIVE insert_stable(_, _, _)
insert_stable(e, s, dix) ==
  IF s = << >> THEN <<e>>
  ELSE IF goes_before(e, Head(s), dix) THEN <<e>> \o s
  ELSE <<Head(s)>> \o insert_stable(e, Tail(s), dix)

RECURSIVE sorted_from(_, _, _, _)
sorted_from(body, i, acc, dix) ==
  IF i > Len(body) THEN acc
  ELSE sorted_from(body, i + 1, insert_stable(body[i], acc, dix), dix)

\* variant: the final sort left out
unsorted_body(body, dix) == body

sorted_body(body, dix) == sorted_from(body, 1, << >>, dix)

\* the rows csv.writer writes: the header, then the body rows
rows_of(body) == [i \in 1..Len(body) |-> body[i].row]

\* ------------------------------------------------------------ inputs
Paths == {"old.csv", "new.csv", "out.csv"}

Hdr == <<Name("Date"), Name("Value")>>
HdrSwapped == <<Name("Value"), Name("Date")>>
HdrWide == <<Name("Date"), Name("Value"), Name("Extra")>>
HdrNoDate == <<Name("Value"), Name("Other")>>

TodayChoices == {4}
KeepDaysChoices == {1, 2}

SeqUpTo(S, n) == UNION {[1..k -> S] : k \in 0..n}

NewRowChoices ==
  { <<Iso(1), Name("a")>>, <<Iso(2), Name("a")>>, <<Iso(3), Name("a")>>,
    <<IsoSpaceTime(3), Name("b")>>, <<Iso(3)>>,
    <<Name("n/a"), Name("a")>>, <<Empty, Name("a")>> }

OldRowChoices ==
  { <<Iso(1), Name("o")>>, <<IsoTTime(1), Name("p")>>, <<Iso(2), Name("o")>>,
    <<Iso(3), Name("o")>>, <<Name("n/a"), Name("o")>>,
    <<Iso(1), Name("o"), Name("e")>> }

OldSample ==
  <<Hdr, <<Iso(1), Name("o")>>, <<Iso(2), Name("o")>>, <<Iso(3), Name("o")>>>>

NewSamples ==
  { <<Hdr>>, <<Hdr, <<Iso(2), Name("a")>>, <<Iso(3), Name("a")>>>> }

StaleOut == <<Hdr, <<Iso(1), Name("s")>>>>

MiscNew ==
  { NoFile, File(<< >>), File(<<HdrNoDate, <<Name("a"), Name("b")>>>>),
    File(<<HdrSwapped, <<Name("a"), Iso(3)>>, <<Name("b"), Iso(1)>>>>),
    File(<<Hdr, <<Iso(3), Name("a")>>>>) }

MiscOld ==
  { NoFile, File(<< >>), File(OldSample),
    File(<<HdrWide, <<Iso(1), Name("o"), Name("e")>>>>),
    File(<<HdrSwapped, <<Name("o"), Iso(1)>>>>) }

\* argparse: --old optional, --new and --out required, --keep-days an int,
\* --date-col "Date"
Args(old, out, keep) ==
  [old |-> old, new |-> "new.csv", out |-> out, keep_days |-> keep,
   date_col |-> Name("Date")]

Files(old, new, out) ==
  [p \in Paths |-> IF p = "old.csv" THEN old ELSE IF p = "new.csv" THEN new ELSE out]

\* a rich NEW table against a fixed OLD table
InitNewRich ==
  \E body \in SeqUpTo(NewRowChoices, MaxNewRows), keep \in KeepDaysChoices :
    /\ fs = Files(File(OldSample), File(<<Hdr>> \o body), NoFile)
    /\ args = Args("old.csv", "out.csv", keep)

\* a rich OLD table, merged in place, against a few NEW tables
InitOldRich ==
  \E body \in SeqUpTo(OldRowChoices, MaxOldRows), new \in NewSamples,
     keep \in KeepDaysChoices :
    /\ fs = Files(File(<<Hdr>> \o body), File(new), NoFile)
    /\ args = Args("old.csv", "old.csv", keep)

\* missing and empty files, differing headers, --old omitted, a stale --out
InitMisc ==
  \E new \in MiscNew, old \in MiscOld, out \in {NoFile, File(StaleOut)},
     oldarg \in {NoPath, "old.csv"}, outarg \in {"out.csv", "old.csv"},
     keep \in KeepDaysChoices :
    /\ fs = Files(old, new, out)
    /\ args = Args(oldarg, outarg, keep)

Init ==
  /\ InitNewRich \/ InitOldRich \/ InitMisc
  /\ today \in TodayChoices
  /\ pc = "read_new"
  /\ new_rows = << >> /\ header = << >> /\ di = 0 /\ old_rows = << >>
  /\ cutoff = 0 /\ new_recent = << >> /\ merged = << >>
  /\ exitcode = -1 /\ stderr = << >>
  /\ fs0 = fs /\ run = "first" /\ prev_out = << >>

\* ----------------------------------------------------------- actions
locals == <<new_rows, header, di, old_rows, cutoff, new_recent, merged>>
ghosts == <<fs0, run, prev_out>>

\* sys.exit(code) after printing msg on stderr, or an uncaught exception
Exit(code, msg) ==
  /\ exitcode' = code
  /\ stderr' = Append(stderr, msg)
  /\ pc' = "done"

\* lines 38-44
ReadNewBody ==
  /\ pc = "read_new"
  /\ IF ~fs[args.new].exists
       THEN /\ Exit(1, "Traceback: FileNotFoundError")
            /\ UNCHANGED new_rows
     ELSE /\ new_rows' = fs[args.new].rows
          /\ IF fs[args.new].rows = << >>
               THEN Exit(2, "ERROR: new CSV is empty")
             ELSE pc' = "find_date_col" /\ UNCHANGED <<exitcode, stderr>>
  /\ UNCHANGED <<args, today, header, di, old_rows, cutoff, new_recent, merged>>
  /\ UNCHANGED ghosts

\* variant: the output file is opened for writing before NEW is read
ReadNew_opening_out == ReadNewBody /\ fs' = [fs EXCEPT ![args.out] = File(<< >>)]

ReadNew == ReadNewBody /\ UNCHANGED fs

\* lines 46-51
FindDateCol ==
  /\ pc = "find_date_col"
  /\ header' = new_rows[1]
  /\ di' = header_index(new_rows[1], args.date_col)
  /\ IF di' = 0
       THEN Exit(2, "ERROR: date column not found in NEW header")
     ELSE pc' = "read_old" /\ UNCHANGED <<exitcode, stderr>>
  /\ UNCHANGED <<fs, args, today, new_rows, old_rows, cutoff, new_recent, merged>>
  /\ UNCHANGED ghosts

\* lines 54-63; a file of size > 0 always yields at least one row, so the
\* fallback old_rows = [header] of lines 59-60 is never taken
ReadOld ==
  /\ pc = "read_old"
  /\ IF args.old # NoPath /\ fs[args.old].exists /\ fs[args.old].rows # << >>
       THEN /\ old_rows' = fs[args.old].rows
            /\ stderr' = IF old_rows'[1] # header
                            THEN Append(stderr, "WARNING: headers differ")
                          ELSE stderr
     ELSE old_rows' = << >> /\ UNCHANGED stderr
  /\ pc' = "cutoff"
  /\ UNCHANGED <<fs, args, today, new_rows, header, di, cutoff, new_recent,
                 merged, exitcode>>
  /\ UNCHANGED ghosts

\* line 65
ComputeCutoff ==
  /\ pc = "cutoff"
  /\ cutoff' = today - args.keep_days
  /\ pc' = "index_new"
  /\ UNCHANGED <<fs, args, today, new_rows, header, di, old_rows, new_recent,
                 merged, exitcode, stderr>>
  /\ UNCHANGED ghosts

\* lines 67-77; parse_date is called outside any try, so its ValueError ends
\* the run with a traceback and exit status 1
IndexNew ==
  /\ pc = "index_new"
  /\ LET r == index_new(new_rows, header, di, cutoff)
     IN  IF r.raised
           THEN Exit(1, "Traceback: ValueError") /\ UNCHANGED new_recent
         ELSE /\ new_recent' = r.dict
              /\ pc' = "filter_old"
              /\ UNCHANGED <<exitcode, stderr>>
  /\ UNCHANGED <<fs, args, today, new_rows, header, di, old_rows, cutoff, merged>>
  /\ UNCHANGED ghosts

\* lines 79-92
FilterOld ==
  /\ pc = "filter_old"
  /\ merged' = filter_old(old_rows, header, di, cutoff)
  /\ pc' = "append_recent"
  /\ UNCHANGED <<fs, args, today, new_rows, header, di, old_rows, cutoff,
                 new_recent, exitcode, stderr>>
  /\ UNCHANGED ghosts

\* lines 94-97
AppendRecent ==
  /\ pc = "append_recent"
  /\ merged' = append_recent(merged, new_recent)
  /\ pc' = "sort"
  /\ UNCHANGED <<fs, args, today, new_rows, header, di, old_rows, cutoff,
                 new_recent, exitcode, stderr>>
  /\ UNCHANGED ghosts

\* lines 99-102
SortBody ==
  /\ pc = "sort"
  /\ merged' = sorted_body(merged, di)
  /\ pc' = "write"
  /\ UNCHANGED <<fs, args, today, new_rows, header, di, old_rows, cutoff,
                 new_recent, exitcode, stderr>>
  /\ UNCHANGED ghosts

\* lines 104-107, then the normal end of the process
WriteOut ==
  /\ pc = "write"
  /\ fs' = [fs EXCEPT ![args.out] = File(<<header>> \o rows_of(merged))]
  /\ exitcode' = 0
  /\ pc' = "done"
  /\ UNCHANGED <<args, today, new_rows, header, di, old_rows, cutoff,
                 new_recent, merged, stderr>>
  /\ UNCHANGED ghosts

\* the NEW table without its rows dated on or after the cutoff
not_recent(row) ==
  ~(Len(row) = Len(header) /\ parse_date(row[di]).tag = "date"
     /\ parse_date(row[di]).d >= cutoff)

NewWithoutRecent == <<header>> \o SelectSeq(Tail(new_rows), not_recent)

\* the script is run once more on the same day, with --old set to the
\* previous --out, and --new either left as it was or emptied of every row
\* of the recent window
Rerun ==
  /\ pc = "done" /\ exitcode = 0 /\ run = "first"
  /\ \E mode \in {"identical", "empty"} :
       /\ run' = mode
       /\ fs' = IF mode = "identical" THEN fs
                ELSE [fs EXCEPT ![args.new] = File(NewWithoutRecent)]
  /\ args' = [args EXCEPT !.old = args.out]
  /\ prev_out' = fs[args.out].rows
  /\ fs0' = fs'
  /\ pc' = "read_new"
  /\ new_rows' = << >> /\ header' = << >> /\ di' = 0 /\ old_rows' = << >>
  /\ cutoff' = 0 /\ new_recent' = << >> /\ merged' = << >>
  /\ exitcode' = -1 /\ stderr' = << >>
  /\ UNCHANGED today

Next ==
  \/ ReadNew
  \/ FindDateCol
  \/ ReadOld
  \/ ComputeCutoff
  \/ IndexNew
  \/ FilterOld
  \/ AppendRecent
  \/ SortBody
  \/ WriteOut
  \/ Rerun

Spec == Init /\ [][Next]_vars

\* ------------------------------------------------- reading the claims
Succeeded == pc = "done" /\ exitcode = 0

\* the tables the run was given, as they were when it started
NewInput == fs0[args.new].rows
OldInput ==
  IF args.old # NoPath /\ fs0[args.old].exists THEN fs0[args.old].rows ELSE << >>
OutRows == fs[args.out].rows

Body(t) == IF t = << >> THEN << >> ELSE Tail(t)

\* a usable row: as many fields as the output header, and a date that parses
usable(row) == Len(row) = Len(header) /\ parse_date(row[di]).tag = "date"
row_date(row) == parse_date(row[di]).d

RowsDated(t, d) ==
  LET on_d(r) == usable(r) /\ row_date(r) = d IN SelectSeq(Body(t), on_d)

DatesOf(t) == {row_date(t[i]) : i \in {j \in 2..Len(t) : usable(t[j])}}

Recent(t) ==
  LET rec(r) == usable(r) /\ row_date(r) >= cutoff IN SelectSeq(Body(t), rec)

NoDateTwice(t) ==
  \A i, j \in 1..Len(t) : row_date(t[i]) = row_date(t[j]) => i = j

\* the run had none of the fatal input errors
NewTableLoads ==
  /\ fs0[args.new].exists
  /\ NewInput # << >>
  /\ header_index(NewInput[1], args.date_col) # 0

\* C1: a malformed row, in the old or in the new input, never makes the run
\* fail: whenever the new table loads, the run ends with exit status 0 and
\* the output written, every row with a wrong field count or an unparsable
\* date left out of it.
C1_MalformedRowNeverFails ==
  (pc = "done" /\ NewTableLoads) =>
     /\ exitcode = 0
     /\ fs[args.out].exists
     /\ \A i \in 2..Len(OutRows) : usable(OutRows[i])

\* C2: every fatal input error (new table unreadable, empty, or without the
\* date column) ends the run with exit status 2, and a run that wrote its
\* output ends with exit status 0.
C2_FatalInputExitsTwo ==
  pc = "done" =>
     /\ ~NewTableLoads => exitcode = 2
     /\ fs[args.out] # fs0[args.out] => exitcode = 0

\* C3: in the output of a run, every row dated d >= cutoff, for a date d that
\* both the old and the new input have, was taken from the new input.
C3_NewWinsInRecentWindow ==
  Succeeded =>
     /\ OutRows = <<header>> \o rows_of(merged)
     /\ \A k \in 1..Len(merged) :
          LET d == sort_key(merged[k], di)
          IN  (d >= cutoff /\ d \in DatesOf(OldInput) /\ d \in DatesOf(NewInput)) =>
                 /\ merged[k].src = "new"
                 /\ merged[k].row = NewInput[merged[k].pos]

C3_Witness ==
  /\ Succeeded
  /\ \E k \in 1..Len(merged) :
       LET d == sort_key(merged[k], di)
       IN  /\ d >= cutoff /\ d \in DatesOf(OldInput) /\ d \in DatesOf(NewInput)
           /\ RowsDated(OldInput, d) # RowsDated(NewInput, d)

\* the date an old row carries under the old table's own header
OldOwnDate(row) ==
  LET odi == header_index(OldInput[1], args.date_col)
  IN  IF odi # 0 /\ Len(row) = Len(OldInput[1]) THEN parse_date(row[odi])
      ELSE NoneDate

\* C4: every old row dated before the cutoff, for a date the new input does
\* not have, is a row of the output of a successful run, whatever the old
\* table's header.
C4_OldHistoryKept ==
  Succeeded =>
     \A i \in 2..Len(OldInput) :
        LET d == OldOwnDate(OldInput[i])
        IN  (d.tag = "date" /\ d.d < cutoff /\ d.d \notin DatesOf(NewInput)) =>
               \E k \in 2..Len(OutRows) : OutRows[k] = OldInput[i]

\* C5: the data rows of the output of a successful run are non-decreasing
\* by parsed date.
C5_OutputSortedByDate ==
  Succeeded =>
     \A i, j \in 2..Len(OutRows) :
        i < j => row_date(OutRows[i]) <= row_date(OutRows[j])

C5_Witness ==
  /\ Succeeded
  /\ Len(OutRows) >= 4
  /\ \E i, j \in 2..Len(OldInput) :
       /\ i < j /\ usable(OldInput[i]) /\ usable(OldInput[j])
       /\ row_date(OldInput[j]) < row_date(OldInput[i])
       /\ row_date(OldInput[i]) < cutoff

\* C6 as stated: run again with --old the previous --out and --new identical
\* or emptied of the recent window, the run succeeds and the recent-window
\* rows of its output are those of the previous output, no date twice.
C6_RerunKeepsRecentRows ==
  (pc = "done" /\ run # "first") =>
     /\ exitcode = 0
     /\ Recent(OutRows) = Recent(prev_out)
     /\ NoDateTwice(Recent(OutRows))

\* C6 as amended: with --new identical the recent-window rows are those of
\* the previous output, no date twice; with --new emptied of the recent
\* window the output has no recent-window row at all.
C6_RerunIdenticalKeepsRecentRows ==
  (pc = "done" /\ run # "first") =>
     /\ exitcode = 0
     /\ NoDateTwice(Recent(OutRows))
     /\ run = "identical" => Recent(OutRows) = Recent(prev_out)
     /\ run = "empty" => Recent(OutRows) = << >>

C6_Witness ==
  /\ pc = "done" /\ run = "identical" /\ exitcode = 0
  /\ Len(Recent(OutRows)) >= 2
  /\ Len(OutRows) > Len(Recent(OutRows)) + 1
  /\ args.old = args.out

\* the position of the last usable row dated d in table t
LastUsable(t, d) ==
  CHOOSE i \in 2..Len(t) :
    /\ usable(t[i]) /\ row_date(t[i]) = d
    /\ \A j \in (i + 1)..Len(t) : ~(usable(t[j]) /\ row_date(t[j]) = d)

\* C7: for every date d >= cutoff with a usable row in the new input, the
\* output has exactly one row dated d, and it is the last usable row for d
\* in the new table's row order.
C7_LastUsableNewRowWins ==
  Succeeded =>
     \A d \in DatesOf(NewInput) :
        d >= cutoff => RowsDated(OutRows, d) = <<NewInput[LastUsable(NewInput, d)]>>

C7_Witness ==
  /\ Succeeded
  /\ \E i, j, k \in 2..Len(NewInput) :
       /\ i < j /\ j < k
       /\ usable(NewInput[i]) /\ usable(NewInput[j])
       /\ row_date(NewInput[i]) = row_date(NewInput[j])
       /\ row_date(NewInput[i]) >= cutoff
       /\ NewInput[i] # NewInput[j]
       /\ Len(NewInput[k]) # Len(header)
       /\ parse_date(NewInput[k][di]) = parse_date(NewInput[i][di])
       /\ RowsDated(OutRows, row_date(NewInput[i])) = <<NewInput[j]>>

\* C8: the output file is written only in the last step of a run: until the
\* run has ended, and after a run that ended with an error, the file at
\* --out is as it was before the run; and when --out is the --old path, the
\* history rows of the output are the usable rows before the cutoff of the
\* old file as it was before the run.
C8_OutputWrittenLast ==
  /\ pc # "done" => fs[args.out] = fs0[args.out]
  /\ (pc = "done" /\ exitcode # 0) => fs[args.out] = fs0[args.out]
  /\ (Succeeded /\ args.old = args.out) =>
        \A d \in DatesOf(OldInput) \cup DatesOf(OutRows) :
           d < cutoff => RowsDated(OutRows, d) = RowsDated(OldInput, d)

C8_Witness ==
  /\ pc = "done" /\ exitcode = 2
  /\ args.old = args.out
  /\ fs[args.out].exists /\ Len(fs[args.out].rows) > 1

\* C9: every data row of the output is a usable old-input row dated before
\* the cutoff or a usable new-input row dated on or after it.
C9_OnlyOldHistoryAndNewRecent ==
  Succeeded =>
     \A k \in 2..Len(OutRows) :
        /\ usable(OutRows[k])
        /\ IF row_date(OutRows[k]) < cutoff
             THEN \E i \in 2..Len(OldInput) : OldInput[i] = OutRows[k]
           ELSE \E i \in 2..Len(NewInput) : NewInput[i] = OutRows[k]

\* an old row dated in the recent window for which a header-only new table
\* has nothing, and a new row dated before the cutoff that the old input lacks
C9_Witness ==
  /\ Succeeded
  /\ Len(NewInput) = 1
  /\ Len(OutRows) > 1
  /\ \E i \in 2..Len(OldInput) : usable(OldInput[i]) /\ row_date(OldInput[i]) >= cutoff

\* C10: for every date before the cutoff, the output rows of that date are
\* all the usable old rows of that date, in the old input's order.
C10_HistoryKeptInOrder ==
  Succeeded =>
     \A d \in DatesOf(OldInput) :
        d < cutoff => RowsDated(OutRows, d) = RowsDated(OldInput, d)

C10_Witness ==
  /\ Succeeded
  /\ \E d \in DatesOf(OldInput) :
       /\ d < cutoff
       /\ Len(RowsDated(OldInput, d)) >= 2
       /\ RowsDated(OldInput, d)[1] # RowsDated(OldInput, d)[2]
  /\ \E i, j \in 2..Len(OldInput) :
       /\ i < j /\ usable(OldInput[i]) /\ usable(OldInput[j])
       /\ row_date(OldInput[j]) < row_date(OldInput[i])
       /\ row_date(OldInput[i]) < cutoff

====
